---- MODULE Spec2Model ----
(***************************************************************************)
(* CryptoAPI (crypto_dot_com/client.py): the request pipeline (_post,      *)
(* _get_public), the recursive order-history paginator get_order_history   *)
(* and the backward candlestick walk get_all_candlesticks.                 *)
(*                                                                         *)
(* The CSV exports of crypto_dot_com/export.py and the key ordering of      *)
(* crypto_dot_com/utils.py follow.                                         *)
(*                                                                         *)
(* The specifications share the variables:                                 *)
(*   SpecPost          one _post call against an arbitrary HTTP response;  *)
(*   SpecHistory       get_order_history against an upstream order store;  *)
(*   SpecCandles       get_all_candlesticks against an upstream feed;      *)
(*   SpecClient        one client operation, private or public;            *)
(*   SpecPaginators    either paginator;                                   *)
(*   SpecExportOrders  repeated runs of export_order_history on one file;  *)
(*   SpecExportTrades  repeated runs of export_trades_history on one file; *)
(*   SpecCanonical     the canonical string of a parameter map.            *)
(***************************************************************************)
EXTENDS Integers, Sequences, FiniteSets, TLC

VARIABLES
    pc,            \* "idle" | "running" | "done" | "raised": position of the caller
    exc,           \* the exception that left the operation (kind "none" while there is none)
    requests,      \* every HTTP request issued so far, in order
    replies,       \* what the upstream answered to each request, in order
    result,        \* the value the operation returned
    orders,        \* upstream order store: orders[k] is the timestamp of order k
    stack,         \* get_order_history activation records, outermost first
    current_time,  \* get_all_candlesticks: the anchor of the walk (ms)
    step,          \* get_all_candlesticks: window width (ms)
    i,             \* get_all_candlesticks: index of the next window
    min_timestamp, \* get_all_candlesticks: the floor, {} for None, {ms} otherwise
    n_steps,       \* get_all_candlesticks: candles per request
    interval,      \* get_all_candlesticks: the resolved interval (its value string)
    kline_data,    \* get_all_candlesticks: candles accumulated so far
    call,          \* get_all_candlesticks: the arguments and the clock reading of the call
    file,          \* export: the CSV at filepath, {} while there is none, {rows} otherwise
    before,        \* export: the CSV at filepath when the last run started
    all_data,      \* export: the records the last run downloaded, in download order
    runs,          \* export: the number of runs so far
    param_maps,    \* canonicalization: the parameter map and a reordered copy of it
    canonical      \* canonicalization: the canonical strings of the two maps

vars == <<pc, exc, requests, replies, result, orders, stack,
          current_time, step, i, min_timestamp, n_steps, interval, kline_data,
          call, file, before, all_data, runs, param_maps, canonical>>

historyVars == <<orders, stack>>
candleVars  == <<current_time, step, i, min_timestamp, n_steps, interval, kline_data,
                 call>>
exportVars  == <<file, before, all_data, runs>>
signVars    == <<param_maps, canonical>>

(***************************************************************************)
(* Bounds of the model.                                                    *)
(***************************************************************************)
MaxTime == 5          \* order timestamps range over 0 .. MaxTime-1
MaxRecords == 3       \* orders held by the upstream store
MaxLimit == 3         \* limit ranges over 0 .. MaxLimit
RecursionLimit == 6   \* interpreter recursion limit, scaled down (CPython: 1000)
MaxBatches == 3       \* non-empty candle batches the upstream feed can serve
MaxSteps == 2         \* n_steps ranges over 0 .. MaxSteps
MaxIds == 2           \* order_id and trade_id range over 1 .. MaxIds
MaxRuns == 3          \* runs of an export on the same filepath

None == {}
Some(x) == {x}
Min(a, b) == IF a <= b THEN a ELSE b

NoExc == [kind |-> "none", code |-> 0, message |-> ""]

(***************************************************************************)
(* HTTP responses.  A response has a status code and a body; the body is   *)
(* either the exchange's JSON envelope (code, message, result) or          *)
(* something that is not an envelope (valid = FALSE).                      *)
(***************************************************************************)
StatusCodes == {200, 201, 400, 404, 500}
BodyCodes == {0, 42, 213, 308, 315, 999}
Messages == {"Invalid price", "Unexpected error"}

Envelope(status, code, message, res) ==
    [status_code |-> status, valid |-> TRUE, code |-> code,
     message |-> message, result |-> res]

Malformed(status) ==
    [status_code |-> status, valid |-> FALSE, code |-> 0,
     message |-> "", result |-> None]

\* requests.Response.ok as the code's callers see it
Ok(response) == 200 <= response.status_code /\ response.status_code < 300

(***************************************************************************)
(* _post: the response pipeline of a signed POST.                          *)
(***************************************************************************)
PrivateMethods ==
    {"private/get-order-history", "private/create-order",
     "private/cancel-all-orders", "private/cancel-order",
     "private/get-order-detail", "private/user-balance"}

\* PostRequest with the default of _post's sign parameter
PostRequestUnsigned(method, params) ==
    [http |-> "POST", method |-> method, sign |-> FALSE, params |-> params]

\* the request _post builds for its callers, which all pass sign=True
PostRequest(method, params) ==
    [http |-> "POST", method |-> method, sign |-> TRUE, params |-> params]

\* ErrorKind without the branch for code 308
ErrorKindWithout308(code) ==
    IF code = 315 THEN "BadPriceException"
    ELSE IF code = 213 THEN "BadQuantityException"
    ELSE "RuntimeError"

\* the if / elif chain over error_response.code
ErrorKind(code) ==
    IF code = 315 THEN "BadPriceException"
    ELSE IF code = 308 THEN "BadPriceException"
    ELSE IF code = 213 THEN "BadQuantityException"
    ELSE "RuntimeError"

\* the exception raised for a parsed error response; its text holds the
\* response's code and message
ApiError(response) ==
    [kind |-> ErrorKind(response.code), code |-> response.code,
     message |-> response.message]

ValidationError == [kind |-> "ValidationError", code |-> 0, message |-> ""]

\* PostOutcome without the test of response.ok: every parsed envelope is returned
PostOutcomeUnchecked(response) ==
    IF response.valid
    THEN [do |-> "return", value |-> response, exc |-> NoExc]
    ELSE [do |-> "raise", value |-> response, exc |-> ValidationError]

\* What _post does with a response: "return" with the parsed envelope, or
\* "raise" with the exception.  model_validate rejects a body that is not
\* an envelope.
PostOutcome(response) ==
    IF Ok(response)
    THEN IF response.valid
         THEN [do |-> "return", value |-> response, exc |-> NoExc]
         ELSE [do |-> "raise", value |-> response, exc |-> ValidationError]
    ELSE IF response.valid
         THEN [do |-> "raise", value |-> response, exc |-> ApiError(response)]
         ELSE [do |-> "raise", value |-> response, exc |-> ValidationError]

PostResponses ==
    {Envelope(s, c, m, None) : s \in StatusCodes, c \in BodyCodes, m \in Messages}
    \cup {Malformed(s) : s \in StatusCodes}

InitCommon ==
    /\ pc = "idle"
    /\ exc = NoExc
    /\ requests = <<>>
    /\ replies = <<>>
    /\ result = <<>>
    /\ orders = <<>>
    /\ stack = <<>>
    /\ current_time = 0
    /\ step = 0
    /\ i = 0
    /\ min_timestamp = None
    /\ n_steps = 0
    /\ interval = ""
    /\ kline_data = <<>>
    /\ call = <<>>
    /\ file = {}
    /\ before = {}
    /\ all_data = <<>>
    /\ runs = 0
    /\ param_maps = <<>>
    /\ canonical = <<>>

\* one call of _post by one of the private operations of CryptoAPI
PostReturns(method, response) ==
    /\ pc = "idle"
    /\ PostOutcome(response).do = "return"
    /\ requests' = Append(requests, PostRequest(method, None))
    /\ replies' = Append(replies, response)
    /\ result' = PostOutcome(response).value
    /\ pc' = "done"
    /\ UNCHANGED <<exc, historyVars, exportVars, signVars, candleVars>>

\* PostRaises sending the request a second time before it gives up
PostRaisesAfterRetry(method, response) ==
    /\ pc = "idle"
    /\ PostOutcome(response).do = "raise"
    /\ requests' = requests \o <<PostRequest(method, None), PostRequest(method, None)>>
    /\ replies' = replies \o <<response, response>>
    /\ exc' = PostOutcome(response).exc
    /\ pc' = "raised"
    /\ UNCHANGED <<result, historyVars, exportVars, signVars, candleVars>>

PostRaises(method, response) ==
    /\ pc = "idle"
    /\ PostOutcome(response).do = "raise"
    /\ requests' = Append(requests, PostRequest(method, None))
    /\ replies' = Append(replies, response)
    /\ exc' = PostOutcome(response).exc
    /\ pc' = "raised"
    /\ UNCHANGED <<result, historyVars, exportVars, signVars, candleVars>>

InitPost == InitCommon

NextPost ==
    \/ \E m \in PrivateMethods, r \in PostResponses : PostReturns(m, r)
    \/ \E m \in PrivateMethods, r \in PostResponses : PostRaises(m, r)

SpecPost == InitPost /\ [][NextPost]_vars

(***************************************************************************)
(* get_order_history: the recursive binary split over [start, end).        *)
(***************************************************************************)
Instruments == {None, Some("CRO_USD")}

\* the stores the upstream may hold: any sequence of at most MaxRecords
\* timestamps; the position of an order in the store is its order_id
OrderStores ==
    UNION {[1..n -> 0..(MaxTime - 1)] : n \in 0..MaxRecords}

\* the item of the response for order k
Item(k) == [order_id |-> k, create_time |-> orders[k]]

\* the orders of the store inside the half-open window, in store order
RECURSIVE InWindow(_, _, _)
InWindow(k, s, e) ==
    IF k > Len(orders) THEN <<>>
    ELSE (IF s <= orders[k] /\ orders[k] < e THEN <<Item(k)>> ELSE <<>>)
         \o InWindow(k + 1, s, e)

\* the capped endpoint: min(limit, number of orders in the window) items
Page(s, e, l) ==
    LET w == InWindow(1, s, e) IN SubSeq(w, 1, Min(l, Len(w)))

\* a failing upstream: error responses the endpoint may give instead
HistoryFaults ==
    {Envelope(400, 999, "Unexpected error", None),
     Envelope(500, 213, "Invalid price", None)}

\* an activation record of get_order_history
Frame(s, e, l, inst) ==
    [start_time |-> s, end_time |-> e, limit |-> l, instrument_name |-> inst,
     at |-> "post", left |-> <<>>, value |-> <<>>]

Top == stack[Len(stack)]

HistoryRequest(f) ==
    PostRequest("private/get-order-history",
                [instrument_name |-> f.instrument_name,
                 start_time |-> f.start_time,
                 end_time |-> f.end_time,
                 limit |-> f.limit])

HistoryReply(f) ==
    Envelope(200, 0, "", [data |-> Page(f.start_time, f.end_time, f.limit)])

\* OrderHistoryDataMessage.model_validate(item) for item in data
ParseOrders(data) ==
    [k \in 1..Len(data) |->
        [order_id |-> data[k].order_id, create_time |-> data[k].create_time]]

Mid(f) == (f.start_time + f.end_time) \div 2

\* LeftCall ending at the midpoint: the halves share nothing
LeftCallToMid(f) == Frame(f.start_time, Mid(f), f.limit, f.instrument_name)

\* LeftCall ending one unit further
LeftCallOvershoots(f) == Frame(f.start_time, Mid(f) + 2, f.limit, f.instrument_name)

\* LeftCall asking for the right half: the halves are visited right to left
LeftCallIsRightHalf(f) == Frame(Mid(f), f.end_time, f.limit, f.instrument_name)

LeftCall(f) == Frame(f.start_time, Mid(f) + 1, f.limit, f.instrument_name)

\* RightCall dropping the instrument filter
RightCallWithoutInstrument(f) == Frame(Mid(f), f.end_time, f.limit, None)

\* RightCall starting after the midpoint
RightCallAfterMid(f) == Frame(Mid(f) + 1, f.end_time, f.limit, f.instrument_name)

RightCall(f) == Frame(Mid(f), f.end_time, f.limit, f.instrument_name)

\* IsBaseCase taking a full page for the last one
IsBaseCaseInclusive(data, l) == Len(data) <= l

\* IsBaseCase ending the recursion on an empty page
IsBaseCaseOrEmpty(data, l) == Len(data) < l \/ data = <<>>

\* IsBaseCase off by one
IsBaseCaseOffByOne(data, l) == Len(data) + 1 < l

\* len(data) < limit
IsBaseCase(data, l) == Len(data) < l

RecursionError == [kind |-> "RecursionError", code |-> 0, message |-> ""]

ReplaceTop(f) == [stack EXCEPT ![Len(stack)] = f]

InitHistory ==
    /\ pc = "idle"
    /\ exc = NoExc
    /\ requests = <<>>
    /\ replies = <<>>
    /\ result = <<>>
    /\ orders \in OrderStores
    /\ stack = <<>>
    /\ current_time = 0
    /\ step = 0
    /\ i = 0
    /\ min_timestamp = None
    /\ n_steps = 0
    /\ interval = ""
    /\ kline_data = <<>>
    /\ call = <<>>
    /\ file = {}
    /\ before = {}
    /\ all_data = <<>>
    /\ runs = 0
    /\ param_maps = <<>>
    /\ canonical = <<>>

\* the caller invokes get_order_history(start_time, end_time, limit, instrument_name)
CallGetOrderHistory(s, e, l, inst) ==
    /\ pc = "idle"
    /\ pc' = "running"
    /\ stack' = <<Frame(s, e, l, inst)>>
    /\ UNCHANGED <<exc, requests, replies, result, orders, candleVars, exportVars, signVars>>

\* the request of the innermost call fails: the exception leaves every frame
OrderHistoryRaises(reply) ==
    /\ pc = "running"
    /\ Top.at = "post"
    /\ PostOutcome(reply).do = "raise"
    /\ requests' = Append(requests, HistoryRequest(Top))
    /\ replies' = Append(replies, reply)
    /\ exc' = PostOutcome(reply).exc
    /\ pc' = "raised"
    /\ stack' = <<>>
    /\ UNCHANGED <<result, orders, candleVars, exportVars, signVars>>

\* the request of the innermost call returns fewer than limit records
OrderHistoryBaseCase ==
    /\ pc = "running"
    /\ Top.at = "post"
    /\ LET reply == HistoryReply(Top)
           data == PostOutcome(reply).value.result.data
       IN /\ PostOutcome(reply).do = "return"
          /\ IsBaseCase(data, Top.limit)
          /\ requests' = Append(requests, HistoryRequest(Top))
          /\ replies' = Append(replies, reply)
          /\ stack' = ReplaceTop([Top EXCEPT !.at = "return",
                                             !.value = ParseOrders(data)])
    /\ UNCHANGED <<pc, exc, result, orders, candleVars, exportVars, signVars>>

\* the request returns limit records or more: recurse into the left half
OrderHistorySplits ==
    /\ pc = "running"
    /\ Top.at = "post"
    /\ Len(stack) < RecursionLimit
    /\ LET reply == HistoryReply(Top)
           data == PostOutcome(reply).value.result.data
       IN /\ PostOutcome(reply).do = "return"
          /\ ~IsBaseCase(data, Top.limit)
          /\ requests' = Append(requests, HistoryRequest(Top))
          /\ replies' = Append(replies, reply)
          /\ stack' = Append(ReplaceTop([Top EXCEPT !.at = "left"]), LeftCall(Top))
    /\ UNCHANGED <<pc, exc, result, orders, candleVars, exportVars, signVars>>

\* as OrderHistorySplits, with the interpreter's stack exhausted
OrderHistoryOverflows ==
    /\ pc = "running"
    /\ Top.at = "post"
    /\ Len(stack) >= RecursionLimit
    /\ LET reply == HistoryReply(Top)
           data == PostOutcome(reply).value.result.data
       IN /\ PostOutcome(reply).do = "return"
          /\ ~IsBaseCase(data, Top.limit)
          /\ requests' = Append(requests, HistoryRequest(Top))
          /\ replies' = Append(replies, reply)
    /\ exc' = RecursionError
    /\ pc' = "raised"
    /\ stack' = <<>>
    /\ UNCHANGED <<result, orders, candleVars, exportVars, signVars>>

\* the innermost call returns its value to its caller
OrderHistoryReturns ==
    /\ pc = "running"
    /\ Top.at = "return"
    /\ IF Len(stack) = 1
       THEN /\ result' = Top.value
            /\ pc' = "done"
            /\ stack' = <<>>
       ELSE LET parent == stack[Len(stack) - 1]
                rest == SubSeq(stack, 1, Len(stack) - 2)
            IN /\ IF parent.at = "left"
                  THEN stack' = rest \o <<[parent EXCEPT !.at = "right",
                                                          !.left = Top.value],
                                           RightCall(parent)>>
                  ELSE stack' = rest \o <<[parent EXCEPT !.at = "return",
                                                          !.value = parent.left \o Top.value]>>
               /\ UNCHANGED <<pc, result>>
    /\ UNCHANGED <<exc, requests, replies, orders, candleVars, exportVars, signVars>>

StartTimes == 0..1
EndTimes == (MaxTime - 1)..MaxTime

NextHistory ==
    \/ \E s \in StartTimes, e \in EndTimes, l \in 0..MaxLimit, inst \in Instruments :
          CallGetOrderHistory(s, e, l, inst)
    \/ \E reply \in HistoryFaults : OrderHistoryRaises(reply)
    \/ OrderHistoryBaseCase
    \/ OrderHistorySplits
    \/ OrderHistoryOverflows
    \/ OrderHistoryReturns

SpecHistory == InitHistory /\ [][NextHistory]_vars

(***************************************************************************)
(* Properties of get_order_history.                                        *)
(***************************************************************************)
\* the arguments of the outermost call, as its request carries them
FirstCall == requests[1].params

Count(seq, x) == Cardinality({k \in DOMAIN seq : seq[k] = x})

\* the invocation ran against the capped endpoint with start < end, limit >= 1
ReturnedFromProperCall ==
    /\ pc = "done"
    /\ FirstCall.start_time < FirstCall.end_time
    /\ FirstCall.limit >= 1

\* C1: order-history completeness.  When get_order_history(start, end, limit)
\* with limit >= 1 returns, every order of the store with a timestamp in
\* [start, end) is in the result exactly once, and nothing else is.
C1_CompleteExactlyOnce ==
    ReturnedFromProperCall =>
        LET expected == ParseOrders(InWindow(1, FirstCall.start_time, FirstCall.end_time))
        IN /\ \A k \in DOMAIN expected : Count(result, expected[k]) = 1
           /\ \A k \in DOMAIN result : Count(expected, result[k]) = 1

\* C2: order-history termination.  With start < end and limit >= 1 the
\* recursion reaches its base case on every path: it never runs until the
\* interpreter's stack is exhausted.
C2_RecursionEnds ==
    (/\ pc = "raised"
     /\ FirstCall.start_time < FirstCall.end_time
     /\ FirstCall.limit >= 1)
        => exc.kind # "RecursionError"

\* The scaled-down recursion limit cuts no recursion that would have ended:
\* the stack is exhausted only after a call requested the very window of
\* its caller, which the store answers with the same page again.
OverflowFollowsRepeatedWindow ==
    exc.kind = "RecursionError" =>
        /\ Len(requests) >= 2
        /\ requests[Len(requests)].params = requests[Len(requests) - 1].params

\* the first reply was a page of fewer than limit records
FirstReplyBelowLimit ==
    /\ Len(replies) >= 1
    /\ Ok(replies[1])
    /\ Len(replies[1].result.data) < FirstCall.limit

\* C3: order-history base case.  If the first call returns fewer than limit
\* records, that request stays the only one, the invocation returns, and
\* its result is exactly the records of that reply in the order returned.
C3_BaseCase ==
    FirstReplyBelowLimit =>
        /\ Len(requests) = 1
        /\ \/ pc = "running" /\ Len(stack) = 1 /\ Top.at = "return"
           \/ pc = "done"
        /\ pc = "done" =>
              /\ Len(result) = Len(replies[1].result.data)
              /\ \A k \in DOMAIN result :
                    /\ result[k].order_id = replies[1].result.data[k].order_id
                    /\ result[k].create_time = replies[1].result.data[k].create_time

C3_Witness ==
    /\ pc = "done"
    /\ FirstReplyBelowLimit
    /\ Len(result) >= 2

\* what the split rule prescribes for the window [s, e): the page itself
\* when it is below the limit, otherwise the value of [s, mid+1) followed by
\* the value of [mid, e); d bounds the depth of the evaluation
RECURSIVE SplitRule(_, _, _, _)
SplitRule(s, e, l, d) ==
    LET page == Page(s, e, l)
        mid == (s + e) \div 2
    IN IF Len(page) < l THEN ParseOrders(page)
       ELSE IF d = 0 THEN <<>>
       ELSE SplitRule(s, mid + 1, l, d - 1) \o SplitRule(mid, e, l, d - 1)

FrameRule(f) == SplitRule(f.start_time, f.end_time, f.limit, RecursionLimit)

\* C4: order-history split rule.  A call whose page holds exactly limit
\* records does not use that page: it calls [start, mid+1) and then
\* [mid, end) with mid = (start+end)//2, and its value is the left value
\* followed by the right value.
C4_SplitRule ==
    /\ \A k \in DOMAIN stack :
          LET f == stack[k]
              mid == (f.start_time + f.end_time) \div 2
          IN /\ f.at \in {"left", "right"} =>
                  /\ Len(Page(f.start_time, f.end_time, f.limit)) = f.limit
                  /\ k < Len(stack)
                  /\ stack[k + 1].limit = f.limit
                  /\ stack[k + 1].instrument_name = f.instrument_name
             /\ f.at = "left" =>
                  /\ stack[k + 1].start_time = f.start_time
                  /\ stack[k + 1].end_time = mid + 1
             /\ f.at = "right" =>
                  /\ stack[k + 1].start_time = mid
                  /\ stack[k + 1].end_time = f.end_time
                  /\ f.left = SplitRule(f.start_time, mid + 1, f.limit, RecursionLimit)
             /\ f.at = "return" => f.value = FrameRule(f)
             /\ f.at \in {"post", "return"} => k = Len(stack)
    /\ pc = "done" =>
          result = SplitRule(FirstCall.start_time, FirstCall.end_time,
                             FirstCall.limit, RecursionLimit)

C4_Witness ==
    /\ pc = "done"
    /\ FirstCall.limit >= 1
    /\ Len(replies[1].result.data) = FirstCall.limit
    /\ Len(requests) >= 5
    /\ Len(result) >= 2

(***************************************************************************)
(* _get_public, get_candlesticks and get_all_candlesticks: the backward    *)
(* walk in windows of n_steps candles.  Times are milliseconds; datetimes  *)
(* are microseconds since the epoch.                                       *)
(***************************************************************************)
\* members of CandlestickTimeInterval (name |-> value)
IntervalValueOfName == [MINUTE_1 |-> "1m", MINUTE_5 |-> "5m"]

IntervalValues == {IntervalValueOfName[n] : n \in DOMAIN IntervalValueOfName}

\* IntervalTypeEnum.get_interval_in_miliseconds of the mapped interval
IntervalMiliseconds(v) == IF v = "1m" THEN 60000 ELSE 300000

\* interval given as an enum member (enum = TRUE, v its value) or as a string
IntervalArgs ==
    {[enum |-> TRUE, v |-> "1m"], [enum |-> FALSE, v |-> "MINUTE_5"],
     [enum |-> FALSE, v |-> "1m"], [enum |-> FALSE, v |-> "INVALID"],
     [enum |-> FALSE, v |-> "MINUTE_1"]}

\* ResolveInterval without the lookups: a string is taken as it is
ResolveIntervalUnchecked(arg) == Some(arg.v)

\* the interval the argument resolves to, None when it raises ValueError:
\* lookup by name, then by value
ResolveInterval(arg) ==
    IF arg.enum THEN Some(arg.v)
    ELSE IF arg.v \in DOMAIN IntervalValueOfName THEN Some(IntervalValueOfName[arg.v])
    ELSE IF arg.v \in IntervalValues THEN Some(arg.v)
    ELSE None

\* int(dt.timestamp() * 1000) of a datetime given in microseconds
TimestampMs(us) == us \div 1000

NowChoices == {1200000}
MaxDatetimes == {None, Some(600000999), Some(1500000000)}
MinDatetimes == {None, Some(0), Some(540000500), Some(1140000000), Some(2000000000)}

ValueError == [kind |-> "ValueError", code |-> 0, message |-> ""]

\* EndTs walking forward in time
EndTsForward == current_time + i * step

\* the window of iteration i
EndTs == current_time - i * step

\* StartTs measured from the anchor in every iteration
StartTsFromAnchor == current_time - step

\* start_ts = end_ts - step
StartTs == EndTs - step

\* BelowFloor comparing the start of the window with the floor
BelowFloorByStart(end_ts) == \E m \in min_timestamp : end_ts - step < m

\* min_timestamp is not None and end_ts < min_timestamp
BelowFloor(end_ts) == \E m \in min_timestamp : end_ts < m

CandleRequest ==
    [http |-> "GET", method |-> "public/get-candlestick", sign |-> FALSE,
     params |-> [instrument_name |-> "BTC_USD", count |-> n_steps,
                 timeframe |-> interval, start_ts |-> StartTs, end_ts |-> EndTs]]

\* GetPublicOutcome classifying a non-2xx envelope the way _post does
GetPublicOutcomeClassifies(response) ==
    IF Ok(response)
    THEN IF response.valid
         THEN [do |-> "return", value |-> response, exc |-> NoExc]
         ELSE [do |-> "raise", value |-> response, exc |-> ValidationError]
    ELSE IF response.valid
         THEN [do |-> "raise", value |-> response, exc |-> ApiError(response)]
         ELSE [do |-> "raise", value |-> response, exc |-> ValidationError]

\* what _get_public does with a response
GetPublicOutcome(response) ==
    IF Ok(response)
    THEN IF response.valid
         THEN [do |-> "return", value |-> response, exc |-> NoExc]
         ELSE [do |-> "raise", value |-> response, exc |-> ValidationError]
    ELSE [do |-> "raise", value |-> response,
          exc |-> [kind |-> "NotImplementedError", code |-> 0, message |-> ""]]

\* get_candlesticks: the Candlestick built for each item of the payload
ToCandlesticks(data) ==
    [k \in 1..Len(data) |-> [timestamp |-> data[k].t, interval_type |-> interval]]

\* the batches the feed may answer for a window: none, one or two candles
CandleBatches(start_ts, end_ts) ==
    {<<>>, <<[t |-> start_ts]>>, <<[t |-> start_ts], [t |-> end_ts]>>}

CandleReply(batch) ==
    Envelope(200, 0, "", [interval |-> interval, data |-> batch,
                          instrument_name |-> "BTC_USD"])

CandleFaults == {Envelope(404, 0, "not found", None)}

\* Accumulate assigning instead of extending
AccumulateOverwrites(kline, new_kline_data) == new_kline_data

\* Accumulate dropping the candles older than the floor
AccumulateAboveFloor(kline, new_kline_data) ==
    kline \o SelectSeq(new_kline_data,
                       LAMBDA c : \A m \in min_timestamp : c.timestamp >= m)

\* kline_data += new_kline_data
Accumulate(kline, new_kline_data) == kline \o new_kline_data

\* Anchor taking max_timestamp even when it lies in the future
AnchorUnclamped(now, max_dt) ==
    IF max_dt = None THEN now
    ELSE TimestampMs(CHOOSE d \in max_dt : TRUE)

\* current_time = min(max_timestamp, current_time) when max_datetime is given
Anchor(now, max_dt) ==
    IF max_dt = None THEN now
    ELSE LET max_timestamp == TimestampMs(CHOOSE d \in max_dt : TRUE)
         IN Min(max_timestamp, now)

\* the caller invokes get_all_candlesticks; the code up to the loop
CallGetAllCandlesticks(arg, n, min_dt, max_dt, now) ==
    /\ pc = "idle"
    /\ IF ResolveInterval(arg) = None
       THEN /\ pc' = "raised"
            /\ exc' = ValueError
            /\ UNCHANGED <<candleVars>>
       ELSE LET iv == CHOOSE v \in ResolveInterval(arg) : TRUE
            IN /\ pc' = "running"
               /\ interval' = iv
               /\ n_steps' = n
               /\ step' = IntervalMiliseconds(iv) * n
               /\ current_time' = Anchor(now, max_dt)
               /\ kline_data' = <<>>
               /\ i' = 0
               /\ min_timestamp' = {TimestampMs(d) : d \in min_dt}
               /\ call' = [interval |-> arg, n_steps |-> n, min_datetime |-> min_dt,
                           max_datetime |-> max_dt, now |-> now]
               /\ UNCHANGED exc
    /\ UNCHANGED <<requests, replies, result, historyVars, exportVars, signVars>>

\* loop iteration: the window lies below the floor
CandlesStopAtFloor ==
    /\ pc = "running"
    /\ BelowFloor(EndTs)
    /\ pc' = "done"
    /\ result' = kline_data
    /\ UNCHANGED <<exc, requests, replies, historyVars, exportVars, signVars, candleVars>>

\* CandlesRaise swallowing the error: the loop ends and the candles
\* accumulated so far are returned
CandlesRaiseReturnsPartial(reply) ==
    /\ pc = "running"
    /\ ~BelowFloor(EndTs)
    /\ GetPublicOutcome(reply).do = "raise"
    /\ requests' = Append(requests, CandleRequest)
    /\ replies' = Append(replies, reply)
    /\ result' = kline_data
    /\ pc' = "done"
    /\ UNCHANGED <<exc, historyVars, exportVars, signVars, candleVars>>

\* loop iteration: the request fails
CandlesRaise(reply) ==
    /\ pc = "running"
    /\ ~BelowFloor(EndTs)
    /\ GetPublicOutcome(reply).do = "raise"
    /\ requests' = Append(requests, CandleRequest)
    /\ replies' = Append(replies, reply)
    /\ exc' = GetPublicOutcome(reply).exc
    /\ pc' = "raised"
    /\ UNCHANGED <<result, historyVars, exportVars, signVars, candleVars>>

\* loop iteration: the feed answers an empty batch
CandlesEmptyPage ==
    /\ pc = "running"
    /\ ~BelowFloor(EndTs)
    /\ LET reply == CandleReply(<<>>)
           new_kline_data == ToCandlesticks(GetPublicOutcome(reply).value.result.data)
       IN /\ GetPublicOutcome(reply).do = "return"
          /\ new_kline_data = <<>>
          /\ requests' = Append(requests, CandleRequest)
          /\ replies' = Append(replies, reply)
    /\ pc' = "done"
    /\ result' = kline_data
    /\ UNCHANGED <<exc, historyVars, exportVars, signVars, candleVars>>

\* loop iteration: the feed answers a non-empty batch
CandlesAppend(batch) ==
    /\ pc = "running"
    /\ ~BelowFloor(EndTs)
    /\ i < MaxBatches
    /\ LET reply == CandleReply(batch)
           new_kline_data == ToCandlesticks(GetPublicOutcome(reply).value.result.data)
       IN /\ GetPublicOutcome(reply).do = "return"
          /\ new_kline_data # <<>>
          /\ requests' = Append(requests, CandleRequest)
          /\ replies' = Append(replies, reply)
          /\ i' = i + 1
          /\ kline_data' = Accumulate(kline_data, new_kline_data)
    /\ UNCHANGED <<pc, exc, result, historyVars, exportVars, signVars, current_time, step,
                   min_timestamp, n_steps, interval, call>>

InitCandles == InitCommon

NextCandles ==
    \/ \E arg \in IntervalArgs, n \in 0..MaxSteps, min_dt \in MinDatetimes,
          max_dt \in MaxDatetimes, now \in NowChoices :
          CallGetAllCandlesticks(arg, n, min_dt, max_dt, now)
    \/ CandlesStopAtFloor
    \/ \E reply \in CandleFaults : CandlesRaise(reply)
    \/ CandlesEmptyPage
    \/ \E batch \in CandleBatches(StartTs, EndTs) : CandlesAppend(batch)

SpecCandles == InitCandles /\ [][NextCandles]_vars

(***************************************************************************)
(* Properties of get_all_candlesticks.                                     *)
(***************************************************************************)
\* the candle timestamps of the replies j .. Len(replies), batch after batch
RECURSIVE FetchedFrom(_)
FetchedFrom(j) ==
    IF j > Len(replies) THEN <<>>
    ELSE (IF Ok(replies[j])
          THEN [k \in 1..Len(replies[j].result.data) |-> replies[j].result.data[k].t]
          ELSE <<>>) \o FetchedFrom(j + 1)

NonEmptyReplies ==
    {j \in DOMAIN replies : Ok(replies[j]) /\ replies[j].result.data # <<>>}

\* the walk ended on an empty batch
StoppedOnEmptyPage ==
    /\ pc = "done"
    /\ Len(replies) >= 1
    /\ Ok(replies[Len(replies)])
    /\ replies[Len(replies)].result.data = <<>>

\* C5: candlestick stop on empty page.  When the feed answers k non-empty
\* batches and then an empty one, get_all_candlesticks has issued exactly
\* k+1 requests (the empty batch is the last reply) and returns the candles
\* of the k batches in the order fetched.
C5_StopOnEmptyPage ==
    StoppedOnEmptyPage =>
        /\ Len(requests) = Cardinality(NonEmptyReplies) + 1
        /\ NonEmptyReplies = 1..(Len(replies) - 1)
        /\ [k \in 1..Len(result) |-> result[k].timestamp] = FetchedFrom(1)

C5_Witness ==
    /\ StoppedOnEmptyPage
    /\ Len(requests) = 3
    /\ Len(result) >= 3
    /\ result[1].timestamp # result[Len(result)].timestamp

\* the floor in milliseconds, as the call's min_datetime gives it
FloorOfCall == {d \div 1000 : d \in call.min_datetime}

\* the end of window j (from 0) as the arguments of the call give it
WindowEnd(j) ==
    LET anchor == IF call.max_datetime = None THEN call.now
                  ELSE Min((CHOOSE d \in call.max_datetime : TRUE) \div 1000, call.now)
    IN anchor - j * (IntervalMiliseconds(interval) * call.n_steps)

\* C6: candlestick floor.  With min_datetime given no request is issued for
\* a window whose end is below the floor; the loop stops, with no request,
\* at the first index whose window end is below the floor (and only a
\* window below the floor stops it that way), and returns what it
\* accumulated.
C6_Floor ==
    pc \in {"running", "done"} =>
        LET n == Cardinality(NonEmptyReplies)   \* the index the loop is at
        IN /\ \A j \in DOMAIN requests : \A m \in FloorOfCall :
                 requests[j].params.end_ts >= m
           /\ \A j \in 0..(n - 1) : \A m \in FloorOfCall : WindowEnd(j) >= m
           /\ (\E m \in FloorOfCall : WindowEnd(n) < m) =>
                 /\ Len(requests) = n
                 /\ pc = "done" =>
                       [k \in 1..Len(result) |-> result[k].timestamp] = FetchedFrom(1)
           /\ (pc = "done" /\ Len(requests) = n) =>
                 \E m \in FloorOfCall : WindowEnd(n) < m

C6_Witness ==
    /\ pc = "done"
    /\ Len(requests) = 2
    /\ Cardinality(NonEmptyReplies) = 2
    /\ \E m \in FloorOfCall : WindowEnd(1) = m

C6_WitnessFirstIndex ==
    /\ pc = "done"
    /\ Len(requests) = 0
    /\ \E m \in FloorOfCall : WindowEnd(0) < m

\* the requests descend: each window ends strictly below the one before and
\* none ends below the floor, and at most (anchor - floor) / step + 1 fit
DescendsToFloor ==
    /\ \A j \in DOMAIN requests : \A m \in FloorOfCall :
          requests[j].params.end_ts >= m
    /\ \A j \in 1..(Len(requests) - 1) :
          requests[j + 1].params.end_ts < requests[j].params.end_ts

\* C7 as claimed: with min_datetime given get_all_candlesticks terminates
\* for every n_steps and every feed, since every further request lies
\* strictly closer to the floor than the one before.
C7_TerminatesForEveryNSteps ==
    (pc # "idle" /\ call # <<>> /\ call.min_datetime # None) => DescendsToFloor

\* C7 as amended: with min_datetime given and n_steps >= 1
\* get_all_candlesticks terminates for every feed: the windows requested
\* end strictly lower each time, never below the floor, so that at most
\* (anchor - floor) div step + 1 requests are issued.
C7_TerminatesByFloor ==
    (pc # "idle" /\ call # <<>> /\ call.min_datetime # None /\ call.n_steps >= 1) =>
        /\ DescendsToFloor
        /\ \A m \in FloorOfCall :
              Len(requests) <=
                  IF WindowEnd(0) < m THEN 0
                  ELSE (WindowEnd(0) - m) \div (WindowEnd(0) - WindowEnd(1)) + 1

C7_Witness ==
    /\ pc = "done"
    /\ call.min_datetime # None
    /\ call.n_steps >= 1
    /\ Len(requests) >= 2
    /\ Cardinality(NonEmptyReplies) = Len(requests)

\* C8: candlestick window arithmetic.  With step = interval duration in ms
\* times n_steps and anchor = min(max_datetime in ms, now) (now when no
\* max_datetime is given), request number j, counted from 0, asks for
\* start_ts = anchor - (j+1)*step, end_ts = anchor - j*step, count = n_steps.
C8_WindowArithmetic ==
    pc \in {"running", "done", "raised"} =>
        \A j \in DOMAIN requests :
            LET stp == IntervalMiliseconds(interval) * call.n_steps
                anchor == IF call.max_datetime = None THEN call.now
                          ELSE Min((CHOOSE d \in call.max_datetime : TRUE) \div 1000,
                                   call.now)
            IN /\ requests[j].params.start_ts = anchor - j * stp
               /\ requests[j].params.end_ts = anchor - (j - 1) * stp
               /\ requests[j].params.count = call.n_steps
               /\ j > 1 => Ok(replies[j - 1]) /\ replies[j - 1].result.data # <<>>

C8_Witness ==
    /\ pc = "done"
    /\ Len(requests) >= 3
    /\ call.n_steps = 2
    /\ call.max_datetime # None
    /\ (CHOOSE d \in call.max_datetime : TRUE) \div 1000 < call.now

(***************************************************************************)
(* Properties of _post.                                                    *)
(***************************************************************************)
ApiErrorKinds == {"BadPriceException", "BadQuantityException", "RuntimeError"}

\* the call received a response with a status outside 2xx
NonOkReply ==
    /\ Len(replies) = 1
    /\ (replies[1].status_code < 200 \/ replies[1].status_code >= 300)

\* C9: error classification.  An error response (a non-2xx response whose
\* body is the error envelope) with code 315 or 308 raises
\* BadPriceException, with code 213 BadQuantityException, and with any
\* other code RuntimeError; the exception keeps the code and the message.
C9_ErrorClassification ==
    (NonOkReply /\ replies[1].valid) =>
        /\ pc = "raised"
        /\ replies[1].code \in {315, 308} => exc.kind = "BadPriceException"
        /\ replies[1].code = 213 => exc.kind = "BadQuantityException"
        /\ replies[1].code \notin {315, 308, 213} => exc.kind = "RuntimeError"
        /\ exc.code = replies[1].code
        /\ exc.message = replies[1].message

C9_Witness ==
    /\ pc = "raised"
    /\ NonOkReply
    /\ replies[1].code = 308
    /\ exc.kind = "BadPriceException"
    /\ exc.message = "Invalid price"

Timeframes == {"1m", "5m", "INVALID"}

\* get_candlesticks: the params dict; start_ts and end_ts are added only
\* when they are given
CandlestickParams(timeframe, start_ts, end_ts) ==
    LET base == [instrument_name |-> "BTC_USD", count |-> 25,
                 timeframe |-> timeframe]
        with_start == IF start_ts = None THEN base
                      ELSE base @@ ("start_ts" :> (CHOOSE t \in start_ts : TRUE))
    IN IF end_ts = None THEN with_start
       ELSE with_start @@ ("end_ts" :> (CHOOSE t \in end_ts : TRUE))

\* _get_public: requests.get(url of the method, params = params)
PublicRequest(params) ==
    [http |-> "GET", method |-> "public/get-candlestick", sign |-> FALSE,
     params |-> params]

CandlePayloads ==
    {None,
     Some([interval |-> "1m", data |-> <<>>, instrument_name |-> "BTC_USD"]),
     Some([interval |-> "1m", data |-> <<[t |-> 60000]>>,
           instrument_name |-> "BTC_USD"])}

PublicResponses ==
    {Envelope(s, c, m, p) : s \in StatusCodes, c \in BodyCodes,
                            m \in {"Unexpected error"}, p \in CandlePayloads}
    \cup {Malformed(s) : s \in StatusCodes}

\* get_candlesticks: the Candlestick built for each item of the message
CandlesticksOf(message) ==
    [k \in 1..Len(message.data) |->
        [timestamp |-> message.data[k].t, interval_type |-> message.interval]]

\* get_candlesticks after the request: what _get_public raised, or the
\* candles of the validated payload (a missing payload does not validate)
GetCandlesticksOutcome(response) ==
    LET o == GetPublicOutcome(response)
    IN IF o.do = "raise" THEN o
       ELSE IF o.value.result = None
            THEN [do |-> "raise", value |-> response, exc |-> ValidationError]
            ELSE [do |-> "return",
                  value |-> CandlesticksOf(CHOOSE p \in o.value.result : TRUE),
                  exc |-> NoExc]

\* CandlestickTimeInterval(timeframe) rejects the timeframe before any request
GetCandlesticksRejects(timeframe) ==
    /\ pc = "idle"
    /\ timeframe \notin IntervalValues
    /\ exc' = ValueError
    /\ pc' = "raised"
    /\ UNCHANGED <<requests, replies, result, historyVars, exportVars, signVars, candleVars>>

GetCandlesticksReturns(timeframe, start_ts, end_ts, response) ==
    /\ pc = "idle"
    /\ timeframe \in IntervalValues
    /\ GetCandlesticksOutcome(response).do = "return"
    /\ requests' = Append(requests,
                          PublicRequest(CandlestickParams(timeframe, start_ts, end_ts)))
    /\ replies' = Append(replies, response)
    /\ result' = GetCandlesticksOutcome(response).value
    /\ pc' = "done"
    /\ UNCHANGED <<exc, historyVars, exportVars, signVars, candleVars>>

GetCandlesticksRaises(timeframe, start_ts, end_ts, response) ==
    /\ pc = "idle"
    /\ timeframe \in IntervalValues
    /\ GetCandlesticksOutcome(response).do = "raise"
    /\ requests' = Append(requests,
                          PublicRequest(CandlestickParams(timeframe, start_ts, end_ts)))
    /\ replies' = Append(replies, response)
    /\ exc' = GetCandlesticksOutcome(response).exc
    /\ pc' = "raised"
    /\ UNCHANGED <<result, historyVars, exportVars, signVars, candleVars>>

WindowEdges == {None, Some(0), Some(60000)}

NextPublic ==
    \/ \E tf \in Timeframes : GetCandlesticksRejects(tf)
    \/ \E tf \in Timeframes, s \in WindowEdges, e \in WindowEdges,
          r \in PublicResponses : GetCandlesticksReturns(tf, s, e, r)
    \/ \E tf \in Timeframes, s \in WindowEdges, e \in WindowEdges,
          r \in PublicResponses : GetCandlesticksRaises(tf, s, e, r)

InitClient == InitCommon

NextClient == NextPost \/ NextPublic

SpecClient == InitClient /\ [][NextClient]_vars

(***************************************************************************)
(* Properties of one client operation.                                     *)
(***************************************************************************)
\* the HTTP status of reply j is in the 2xx range and its body is an envelope
SuccessStatusEnvelope(j) ==
    /\ replies[j].status_code \in 200..299
    /\ replies[j].valid

\* C11: a 2xx response is returned to the caller as a success only if its
\* in-body code is 0; a 2xx response whose body carries a nonzero code is
\* turned into one of the classified errors and is never returned.
C11_ApplicationFailureIsClassified ==
    \A j \in DOMAIN replies :
        SuccessStatusEnvelope(j) =>
            /\ pc = "done" => replies[j].code = 0
            /\ replies[j].code # 0 =>
                   /\ pc = "raised"
                   /\ exc.kind \in ApiErrorKinds


(***************************************************************************)
(* The two paginators side by side: from the idle client either            *)
(* get_order_history or get_all_candlesticks is invoked.  The candlestick  *)
(* walk neither reads nor writes the order store, so it is explored        *)
(* against the empty store only.                                           *)
(***************************************************************************)
InitPaginators == InitHistory

NextPaginators ==
    \/ (pc = "idle" \/ stack # <<>>) /\ NextHistory
    \/ (orders = <<>> /\ stack = <<>>) /\ NextCandles

SpecPaginators == InitPaginators /\ [][NextPaginators]_vars

\* C12: when a request made by get_order_history or get_all_candlesticks
\* fails, the operation raises the error of that request (the classified
\* API error for a POST, NotImplementedError for a GET), the failed request
\* is the last one it issues, and it returns nothing: the records gathered
\* before the failure are not handed to the caller.
C12_PaginatorErrorPropagation ==
    \A j \in DOMAIN replies :
        replies[j].status_code \notin 200..299 =>
            /\ j = Len(replies)
            /\ j = Len(requests)
            /\ pc = "raised"
            /\ result = <<>>
            /\ IF requests[j].http = "GET"
               THEN exc.kind = "NotImplementedError"
               ELSE /\ exc.kind \in ApiErrorKinds
                    /\ exc.code = replies[j].code
                    /\ exc.message = replies[j].message

\* get_all_candlesticks fails on its third request, with candles in hand
C12_Witness ==
    /\ pc = "raised"
    /\ Len(requests) = 3
    /\ requests[3].http = "GET"
    /\ replies[3].status_code = 404
    /\ Len(kline_data) >= 2
    /\ result = <<>>

\* get_order_history fails after a base case has returned records
C12_WitnessOrderHistory ==
    /\ pc = "raised"
    /\ Len(requests) >= 3
    /\ requests[1].http = "POST"
    /\ replies[Len(replies)].status_code = 400
    /\ \E k \in 1..(Len(replies) - 1) :
          LET data == replies[k].result.data
          IN data # <<>> /\ Len(data) < requests[k].params.limit
    /\ result = <<>>


\* C13: an invocation of _post or _get_public issues exactly one HTTP
\* request and receives one response; whatever the response is (2xx, an
\* error status, a body that is not an envelope), the request is not sent a
\* second time.  An operation rejected before the pipeline sends nothing.
C13_NoRetry ==
    /\ Len(replies) = Len(requests)
    /\ Len(requests) = (IF pc = "idle" \/ exc.kind = "ValueError" THEN 0 ELSE 1)

\* a private operation has failed on an error response
C13_Witness ==
    /\ pc = "raised"
    /\ Len(requests) = 1
    /\ requests[1].http = "POST"
    /\ replies[1].status_code = 500
    /\ exc.kind = "RuntimeError"

C18_SignedIffPrivate ==
    \A j \in DOMAIN requests :
        LET r == requests[j]
        IN IF r.method = "public/get-candlestick"
           THEN /\ r.http = "GET"
                /\ ~r.sign
                /\ DOMAIN r.params \cap {"api_key", "sig", "signature", "nonce"} = {}
           ELSE /\ r.method \in {"private/get-order-history", "private/create-order",
                                 "private/cancel-all-orders", "private/cancel-order",
                                 "private/get-order-detail", "private/user-balance"}
                /\ r.http = "POST"
                /\ r.sign

\* a private request has been made
C18_Witness ==
    /\ Len(requests) = 1
    /\ requests[1].method = "private/cancel-order"
    /\ requests[1].sign

\* a public request with both window edges has been made
C18_WitnessPublic ==
    /\ Len(requests) = 1
    /\ requests[1].method = "public/get-candlestick"
    /\ DOMAIN requests[1].params =
           {"instrument_name", "count", "timeframe", "start_ts", "end_ts"}


C20_WitnessValueString ==
    /\ call # <<>>
    /\ call.interval = [enum |-> FALSE, v |-> "1m"]
    /\ interval = "1m"
    /\ Len(requests) >= 1

C20_WitnessMember ==
    /\ call # <<>>
    /\ call.interval = [enum |-> TRUE, v |-> "1m"]
    /\ interval = "1m"
    /\ Len(requests) >= 1

\* an invalid string has been rejected
C20_WitnessInvalid ==
    /\ pc = "raised"
    /\ exc.kind = "ValueError"
    /\ requests = <<>>


(***************************************************************************)
(* export.py: export_order_history and export_trades_history.  A run is    *)
(* one action.  The download of a run is given by its outcome, the records *)
(* of each day fetched; a CSV file is the sequence of its rows, and the    *)
(* file written from an empty frame is the one without rows (it has no     *)
(* header either).  order_id and trade_id are the exchange's decimal       *)
(* numerals, which read_csv followed by astype(str) gives back unchanged.  *)
(***************************************************************************)
OrderRecords == [order_id : 1..MaxIds, status : {"ACTIVE", "FILLED"}]

TradeRecords == [trade_id : 1..MaxIds, side : {"BUY", "SELL"}]

\* what the client returns for one day: no record or one record
DayFetches(records) == {<<>>} \cup {<<r>> : r \in records}

\* past_n_days
PastNDays == {0, 1}

\* for i in range(0, past_n_days + 1): one fetch per day, today first
Downloads(records) ==
    UNION {[1..(n + 1) -> DayFetches(records)] : n \in PastNDays}

\* all_data.extend(data) over the days
RECURSIVE ExtendAll(_)
ExtendAll(days) ==
    IF days = <<>> THEN <<>> ELSE Head(days) \o ExtendAll(Tail(days))

\* DropDuplicates that drops nothing
DropDuplicatesKeepsAll(rows, subset) == rows

\* DropDuplicates with keep="last"
RECURSIVE DropDuplicatesKeepLast(_, _)
DropDuplicatesKeepLast(rows, subset) ==
    IF rows = <<>> THEN <<>>
    ELSE LET rest == DropDuplicatesKeepLast(Tail(rows), subset)
         IN IF \E k \in DOMAIN rest : rest[k][subset] = Head(rows)[subset]
            THEN rest
            ELSE <<Head(rows)>> \o rest

\* DataFrame.drop_duplicates(subset=subset, keep="first")
RECURSIVE DropDuplicates(_, _)
DropDuplicates(rows, subset) ==
    IF rows = <<>> THEN <<>>
    ELSE LET init == DropDuplicates(SubSeq(rows, 1, Len(rows) - 1), subset)
             last == rows[Len(rows)]
         IN IF \E k \in DOMAIN init : init[k][subset] = last[subset]
            THEN init
            ELSE Append(init, last)

\* what pandas raises on the file written from an empty frame: read_csv
\* finds no columns, or astype finds no order_id column
ReadErrors ==
    {[kind |-> "EmptyDataError", code |-> 0, message |-> ""],
     [kind |-> "KeyError", code |-> 0, message |-> ""]}

\* read_order_history_from_csv(filepath, return_type="pydantic")
ReadOrderHistoryFromCsv(rows) ==
    IF rows = <<>>
    THEN [do |-> "raise", value |-> <<>>, excs |-> ReadErrors]
    ELSE [do |-> "return", value |-> rows, excs |-> {}]

\* OrdersFrame without the records of the existing file
OrdersFrameWithoutPrevious(downloaded, prev_data) ==
    DropDuplicates(downloaded, "order_id")

\* the frame export_order_history writes: downloaded records first, then
\* the records of the existing file, duplicates of order_id dropped
OrdersFrame(downloaded, prev_data) ==
    DropDuplicates(downloaded \o prev_data, "order_id")

\* the frame export_trades_history writes
TradesFrame(downloaded) == DropDuplicates(downloaded, "trade_id")

\* df.to_csv(filepath, index=False)
ToCsv(df) == Some(df)

\* a run of export_order_history that reaches its return
ExportOrderHistoryReturns(days) ==
    /\ runs < MaxRuns
    /\ \A f \in file : ReadOrderHistoryFromCsv(f).do = "return"
    /\ LET prev_data == IF file = None THEN <<>>
                        ELSE ReadOrderHistoryFromCsv(CHOOSE f \in file : TRUE).value
           df == OrdersFrame(ExtendAll(days), prev_data)
       IN /\ file' = ToCsv(df)
          /\ result' = Len(df)
    /\ before' = file
    /\ all_data' = ExtendAll(days)
    /\ runs' = runs + 1
    /\ exc' = NoExc
    /\ pc' = "done"
    /\ UNCHANGED <<requests, replies, historyVars, candleVars, signVars>>

\* a run of export_order_history that fails reading the existing file
ExportOrderHistoryRaises(days, e) ==
    /\ runs < MaxRuns
    /\ \E f \in file : /\ ReadOrderHistoryFromCsv(f).do = "raise"
                       /\ e \in ReadOrderHistoryFromCsv(f).excs
    /\ before' = file
    /\ all_data' = ExtendAll(days)
    /\ runs' = runs + 1
    /\ exc' = e
    /\ pc' = "raised"
    /\ UNCHANGED <<requests, replies, result, file, historyVars, candleVars, signVars>>

InitExportOrders == InitCommon

NextExportOrders ==
    \/ \E days \in Downloads(OrderRecords) : ExportOrderHistoryReturns(days)
    \/ \E days \in Downloads(OrderRecords), e \in ReadErrors :
          ExportOrderHistoryRaises(days, e)

SpecExportOrders == InitExportOrders /\ [][NextExportOrders]_vars

\* a run of export_trades_history
ExportTradesHistory(days) ==
    /\ runs < MaxRuns
    /\ LET df == TradesFrame(ExtendAll(days))
       IN /\ file' = ToCsv(df)
          /\ result' = Len(df)
    /\ before' = file
    /\ all_data' = ExtendAll(days)
    /\ runs' = runs + 1
    /\ exc' = NoExc
    /\ pc' = "done"
    /\ UNCHANGED <<requests, replies, historyVars, candleVars, signVars>>

InitExportTrades == InitCommon

NextExportTrades ==
    \E days \in Downloads(TradeRecords) : ExportTradesHistory(days)

SpecExportTrades == InitExportTrades /\ [][NextExportTrades]_vars

(***************************************************************************)
(* Properties of the exports.                                              *)
(***************************************************************************)
\* the rows of a file, none while there is no file
RowsOf(f) == IF f = {} THEN <<>> ELSE CHOOSE rows \in f : TRUE

OrderIds(rows) == {rows[k].order_id : k \in DOMAIN rows}

TradeIds(rows) == {rows[k].trade_id : k \in DOMAIN rows}

\* C14: after any sequence of runs of export_order_history on one filepath,
\* runs with an empty download included, the last run has succeeded, the
\* file holds no order_id twice, and it holds every order_id that was in
\* the file before the run or was downloaded by the run.
C14_SafeToRunRepeatedly ==
    runs > 0 =>
        /\ pc = "done"
        /\ \A k, l \in DOMAIN RowsOf(file) :
              RowsOf(file)[k].order_id = RowsOf(file)[l].order_id => k = l
        /\ OrderIds(RowsOf(before)) \cup OrderIds(all_data) \subseteq OrderIds(RowsOf(file))

\* C15: a run of export_order_history that returns, returns the number of
\* rows of the file it wrote, and that number is the number of distinct
\* order_ids among the downloaded records and the records the file held.
C15_ReturnsRowCount ==
    (runs > 0 /\ pc = "done") =>
        /\ file # {}
        /\ result = Len(RowsOf(file))
        /\ result = Cardinality(OrderIds(all_data) \cup OrderIds(RowsOf(before)))

\* a run that downloaded one order of the file again and one new order
C15_Witness ==
    /\ runs >= 2
    /\ pc = "done"
    /\ Len(RowsOf(before)) = 1
    /\ Len(all_data) = 2
    /\ OrderIds(RowsOf(before)) \subseteq OrderIds(all_data)
    /\ result = 2

KeyOrder == <<"end_time", "instrument_name", "limit">>

Keys == {KeyOrder[n] : n \in DOMAIN KeyOrder}

Rank(key) == CHOOSE n \in DOMAIN KeyOrder : KeyOrder[n] = key

ScalarEntry(key, text) ==
    [key |-> key, is_map |-> FALSE, scalar |-> text, nested |-> <<>>]

MapEntry(key, map) ==
    [key |-> key, is_map |-> TRUE, scalar |-> "", nested |-> map]

\* maps of scalars, of two entries, in either insertion order
LeafMaps ==
    {<<ScalarEntry(p[1], "1"), ScalarEntry(p[2], "1")>> :
        p \in {x \in Keys \X Keys : x[1] # x[2]}}

\* the entries a key can have: a scalar or a nested map
EntriesOf(key) ==
    {ScalarEntry(key, "1")} \cup {MapEntry(key, m) : m \in LeafMaps}

ParamMaps ==
    {<<e>> : e \in UNION {EntriesOf(k) : k \in Keys}}
    \cup {<<p[1], p[2]>> :
            p \in {x \in (UNION {EntriesOf(k) : k \in Keys})
                         \X (UNION {EntriesOf(k) : k \in Keys}) :
                      x[1].key # x[2].key}}

\* the value a map holds for a key
EntryAt(map, key) == map[CHOOSE n \in DOMAIN map : map[n].key = key]

KeysOf(map) == {map[n].key : n \in DOMAIN map}

\* the same keys and the same scalars, whatever the insertion order
SameLeaves(m, n) ==
    /\ KeysOf(m) = KeysOf(n)
    /\ \A k \in KeysOf(m) : EntryAt(m, k).scalar = EntryAt(n, k).scalar

\* structurally identical maps: the same keys with the same values, nested
\* maps compared in the same way
StructurallyIdentical(d, e) ==
    /\ KeysOf(d) = KeysOf(e)
    /\ \A k \in KeysOf(d) :
          /\ EntryAt(d, k).is_map = EntryAt(e, k).is_map
          /\ EntryAt(d, k).scalar = EntryAt(e, k).scalar
          /\ SameLeaves(EntryAt(d, k).nested, EntryAt(e, k).nested)

\* SortDictByKey leaving the insertion order
SortDictByKeyUnsorted(d) == d

\* sort_dict_by_key: dict(sorted(d.items())), the entries of d by key
SortDictByKey(d) ==
    SortSeq(d, LAMBDA x, y : Rank(x.key) < Rank(y.key))

\* the canonical string of a map: keys sorted at every level; a scalar
\* contributes its key and its text, a nested map its key and its own
\* canonical string
RECURSIVE Canonicalize(_)
Canonicalize(d) ==
    LET sorted == SortDictByKey(d)
        piece(n) == IF sorted[n].is_map
                    THEN <<sorted[n].key>> \o Canonicalize(sorted[n].nested)
                    ELSE <<sorted[n].key, sorted[n].scalar>>
        upto[n \in 0..Len(sorted)] ==
            IF n = 0 THEN <<>> ELSE upto[n - 1] \o piece(n)
    IN upto[Len(sorted)]

InitCanonical ==
    /\ pc = "idle"
    /\ exc = NoExc
    /\ requests = <<>>
    /\ replies = <<>>
    /\ result = <<>>
    /\ orders = <<>>
    /\ stack = <<>>
    /\ current_time = 0
    /\ step = 0
    /\ i = 0
    /\ min_timestamp = None
    /\ n_steps = 0
    /\ interval = ""
    /\ kline_data = <<>>
    /\ call = <<>>
    /\ file = {}
    /\ before = {}
    /\ all_data = <<>>
    /\ runs = 0
    /\ param_maps \in {p \in ParamMaps \X ParamMaps : StructurallyIdentical(p[1], p[2])}
    /\ canonical = <<>>

\* both maps are canonicalized
CanonicalizeBoth ==
    /\ pc = "idle"
    /\ canonical' = <<Canonicalize(param_maps[1]), Canonicalize(param_maps[2])>>
    /\ pc' = "done"
    /\ UNCHANGED <<exc, requests, replies, result, historyVars, candleVars,
                   exportVars, param_maps>>

NextCanonical == CanonicalizeBoth

SpecCanonical == InitCanonical /\ [][NextCanonical]_vars

\* C19: a parameter map and a structurally identical map whose keys were
\* inserted in another order, at the top level or inside a nested map, have
\* the same canonical string.
C19_CanonicalizationDeterminism ==
    pc = "done" => canonical[1] = canonical[2]

\* two maps that differ in the insertion order of a nested map and of the
\* top level have been canonicalized
C19_Witness ==
    /\ pc = "done"
    /\ Len(param_maps[1]) = 2
    /\ param_maps[1][1].key # param_maps[2][1].key
    /\ \E k \in KeysOf(param_maps[1]) :
          /\ EntryAt(param_maps[1], k).is_map
          /\ EntryAt(param_maps[1], k).nested # EntryAt(param_maps[2], k).nested
    /\ canonical[1] = canonical[2]


(***************************************************************************)
(* Properties of the windows of get_order_history.                         *)
(***************************************************************************)
\* the time units of the half-open window of a frame or of a request
Units(w) == w.start_time..(w.end_time - 1)

\* the frames that have split: their child is the next frame of the stack
SplitFrames == {k \in DOMAIN stack : stack[k].at \in {"left", "right"}}

\* C21: at every split of [start, end) with start < end the left half is
\* [start, mid+1) and the right half is [mid, end): they share the one time
\* unit mid and nothing else, and an order at timestamp mid lies in both.
C21_BoundaryOverlap ==
    \A k \in SplitFrames :
        LET f == stack[k]
            mid == (f.start_time + f.end_time) \div 2
            left == f.start_time..mid
            right == mid..(f.end_time - 1)
        IN f.start_time < f.end_time =>
              /\ f.at = "left" => Units(stack[k + 1]) = left
              /\ f.at = "right" =>
                    /\ Units(stack[k + 1]) = right
                    /\ Units(stack[k + 1]) \cap left = {mid}
                    /\ \A x \in DOMAIN orders :
                          orders[x] = mid =>
                              /\ orders[x] \in left
                              /\ orders[x] \in Units(stack[k + 1])

\* the right half of a split is being visited and the store holds an order
\* at the midpoint
C21_Witness ==
    \E k \in SplitFrames :
        /\ stack[k].at = "right"
        /\ stack[k].end_time - stack[k].start_time >= 3
        /\ \E x \in DOMAIN orders :
              orders[x] = (stack[k].start_time + stack[k].end_time) \div 2

\* C23: each of the two sub-windows of a split is strictly narrower than
\* the window that is split, for every width end - start >= 1.
C23_StrictShrinking ==
    \A k \in SplitFrames :
        LET f == stack[k]
            child == stack[k + 1]
        IN f.end_time - f.start_time >= 1 =>
              child.end_time - child.start_time < f.end_time - f.start_time

\* C25: every window requested during get_order_history(start, end, ...)
\* with start < end lies inside [start, end), and the two sub-windows of a
\* split cover the window that is split, without a gap at mid.
C25_ContainmentAndCovering ==
    /\ \A j \in DOMAIN requests :
          FirstCall.start_time < FirstCall.end_time =>
              /\ FirstCall.start_time <= requests[j].params.start_time
              /\ requests[j].params.start_time < requests[j].params.end_time
              /\ requests[j].params.end_time <= FirstCall.end_time
    /\ \A k \in SplitFrames :
          LET f == stack[k]
              mid == (f.start_time + f.end_time) \div 2
          IN /\ f.at = "left" => Units(stack[k + 1]) = f.start_time..mid
             /\ f.at = "right" =>
                   (f.start_time..mid) \cup Units(stack[k + 1]) = Units(f)

\* the right half of the original window is requested after the left half
\* has been split in its turn
C25_Witness ==
    /\ Len(requests) >= 5
    /\ requests[Len(requests)].params.end_time = FirstCall.end_time
    /\ requests[Len(requests)].params.start_time > FirstCall.start_time
    /\ Len(stack) = 2
    /\ stack[1].at = "right"
    /\ stack[2].at = "return"

\* C26: every request of one get_order_history invocation carries the
\* limit and the instrument_name of the original call.
C26_FrameOfRecursion ==
    \A j \in DOMAIN requests :
        /\ requests[j].params.limit = FirstCall.limit
        /\ requests[j].params.instrument_name = FirstCall.instrument_name
        /\ requests[j].method = "private/get-order-history"

\* an invocation with an instrument filter has returned after splitting
C26_Witness ==
    /\ pc = "done"
    /\ Len(requests) >= 3
    /\ FirstCall.instrument_name = Some("CRO_USD")
    /\ requests[Len(requests)].params.start_time # FirstCall.start_time


\* the window a request asks for
WindowOf(request) ==
    [start_time |-> request.params.start_time, end_time |-> request.params.end_time]

\* the windows a traversal requests that finishes the left half of every
\* split, descendants included, before it enters the right half; d bounds
\* the depth of the evaluation
RECURSIVE LeftFirst(_, _, _, _)
LeftFirst(s, e, l, d) ==
    LET mid == (s + e) \div 2
        own == <<[start_time |-> s, end_time |-> e]>>
    IN IF Len(Page(s, e, l)) < l \/ d = 0 THEN own
       ELSE own \o LeftFirst(s, mid + 1, l, d - 1) \o LeftFirst(mid, e, l, d - 1)

\* C22: a paginator has at most one request in flight: every request in
\* the log has its response before anything else happens.  In
\* get_order_history the requests of the left half of a split, descendants
\* included, all precede the first request of the right half: the windows
\* of a returned invocation are requested in left-first order.
C22_SequentialTraversal ==
    /\ Len(replies) = Len(requests)
    /\ \A k \in DOMAIN stack :
          /\ k < Len(stack) => stack[k].at \in {"left", "right"}
          /\ stack[k].at = "left" => stack[k].left = <<>>
    /\ (pc = "done" /\ requests # <<>> /\ requests[1].http = "POST") =>
          [j \in DOMAIN requests |-> WindowOf(requests[j])]
              = LeftFirst(FirstCall.start_time, FirstCall.end_time,
                          FirstCall.limit, RecursionLimit)

\* an invocation has returned after splitting the left half of a split
C22_Witness ==
    /\ pc = "done"
    /\ Len(requests) >= 5
    /\ requests[1].http = "POST"
    /\ WindowOf(requests[3]).start_time = FirstCall.start_time
    /\ WindowOf(requests[Len(requests)]).end_time = FirstCall.end_time

\* C24: whenever get_order_history returns, it has issued exactly 2k+1
\* requests, where k is the number of responses that held limit records or
\* more.
C24_RequestCount ==
    (pc = "done" /\ requests # <<>> /\ requests[1].http = "POST") =>
        LET full == {j \in DOMAIN replies :
                        Len(replies[j].result.data) >= requests[j].params.limit}
        IN Len(requests) = 2 * Cardinality(full) + 1

\* an invocation has returned after two full pages
C24_Witness ==
    /\ pc = "done"
    /\ Len(requests) = 5
    /\ Len(result) >= 3

\* C29: with limit <= 0 no response is a base case: every answered request
\* of get_order_history is followed by a call for the left half, no call
\* returns, and the invocation never returns a result.
C29_DegenerateLimit ==
    (requests # <<>> /\ FirstCall.limit <= 0) =>
        /\ pc # "done"
        /\ result = <<>>
        /\ \A k \in DOMAIN stack : stack[k].at \in {"post", "left"}
        /\ pc = "running" => Len(stack) = Len(requests) + 1
        /\ pc = "raised" =>
              \/ exc.kind = "RecursionError"
              \/ ~Ok(replies[Len(replies)])

\* an invocation with limit 0 has exhausted the interpreter's stack
C29_Witness ==
    /\ pc = "raised"
    /\ exc.kind = "RecursionError"
    /\ FirstCall.limit = 0
    /\ \A j \in DOMAIN replies : Ok(replies[j]) /\ replies[j].result.data = <<>>


\* C27: for step > 0 the windows of get_all_candlesticks are adjacent and
\* move strictly backward: the first ends at the anchor, every window is
\* step wide, the start_ts of a request is the end_ts of the next one, and
\* no window is requested twice.
C27_ContiguousBackwardWalk ==
    (pc # "idle" /\ call # <<>> /\ step > 0) =>
        /\ \A j \in DOMAIN requests :
              /\ requests[j].params.end_ts = WindowEnd(j - 1)
              /\ requests[j].params.start_ts < requests[j].params.end_ts
        /\ \A j \in 1..(Len(requests) - 1) :
              requests[j].params.start_ts = requests[j + 1].params.end_ts
        /\ \A j, k \in DOMAIN requests :
              j < k => /\ requests[k].params.end_ts <= requests[j].params.start_ts
                       /\ requests[k].params # requests[j].params

C27_Witness ==
    /\ pc = "done"
    /\ step > 0
    /\ Len(requests) >= 3
    /\ requests[3].params.end_ts = requests[1].params.start_ts - step

\* the requests whose window straddles the floor
Straddling ==
    {j \in DOMAIN requests :
        \E m \in FloorOfCall :
            requests[j].params.start_ts < m /\ m <= requests[j].params.end_ts}

\* C28: with min_datetime given, a window with start_ts < minTime <= end_ts
\* is requested in full, its start not raised to the floor, and every candle
\* of its batch is appended, the ones older than the floor included.
C28_StraddlingWindow ==
    (pc \in {"running", "done"} /\ call # <<>>) =>
        /\ \A j \in Straddling :
              /\ requests[j].params.end_ts - requests[j].params.start_ts = step
              /\ j <= Len(replies)
        /\ [k \in 1..Len(kline_data) |-> kline_data[k].timestamp] = FetchedFrom(1)
        /\ pc = "done" => result = kline_data

\* the result holds a candle older than min_datetime, from a straddling window
C28_Witness ==
    /\ pc = "done"
    /\ Straddling # {}
    /\ \E k \in DOMAIN result : \E m \in FloorOfCall :
          /\ result[k].timestamp < m
          /\ m - result[k].timestamp <= step


\* the first record of rows with the given order_id
FirstWithId(rows, id) ==
    rows[CHOOSE k \in DOMAIN rows :
            /\ rows[k].order_id = id
            /\ \A l \in 1..(k - 1) : rows[l].order_id # id]

\* C30: merge precedence in export_order_history.  A row of the written
\* file whose order_id was downloaded by the run is the downloaded record,
\* the one of the most recent day (fetched first) when several days
\* returned that order_id; only a row whose order_id was not downloaded is
\* the row of the existing file.
C30_MergePrecedence ==
    (runs > 0 /\ pc = "done") =>
        \A k \in DOMAIN RowsOf(file) :
            LET row == RowsOf(file)[k]
            IN IF row.order_id \in OrderIds(all_data)
               THEN row = FirstWithId(all_data, row.order_id)
               ELSE row = FirstWithId(RowsOf(before), row.order_id)

\* an order of the existing file was downloaded on two days of the run with
\* different contents, the older of them equal to the row of the file
C30_Witness ==
    /\ runs >= 2
    /\ pc = "done"
    /\ Len(all_data) = 2
    /\ all_data[1].order_id = all_data[2].order_id
    /\ all_data[1].status # all_data[2].status
    /\ \E k \in DOMAIN RowsOf(before) :
          /\ RowsOf(before)[k].order_id = all_data[1].order_id
          /\ RowsOf(before)[k].status # all_data[1].status
    /\ \E k \in DOMAIN RowsOf(file) : RowsOf(file)[k] = all_data[1]

====
